---- MODULE Spec2Model ----
(***************************************************************************)
(* Model of the Millennium ERP client (package millennium, the version     *)
(* built on retryablehttp): one client instance, its credentials, its     *)
(* shared header map and its transport, and the calls Login, Get, Post,    *)
(* Delete and Request made on it one after another.  A call is modelled in *)
(* steps: the prelude of Request (validation, request construction, header *)
(* attachment), then one step per transport attempt of the retrying        *)
(* client, the last of which also runs getResponse and the rest of the     *)
(* calling operation.                                                      *)
(***************************************************************************)
EXTENDS Integers, Sequences, FiniteSets, TLC

VARIABLES ServerAddr, credentials, headers, transport, call, clients, params, request, callers

(* The client the calls are made on, and the call in progress.             *)
client == <<ServerAddr, credentials, headers, transport, call>>
(* What the other specifications of this module follow: clients created    *)
(* side by side, the parameter map of a caller and the request built from  *)
(* it, and several callers inside Request at once.                         *)
aside == <<clients, params, request, callers>>

vars == <<client, aside>>

-----------------------------------------------------------------------------
(* Program constants.                                                      *)

NTLM == "NTLM"
Session == "SESSION"
Basic == "BASIC"

GET == "GET"
POST == "POST"
DELETE == "DELETE"

RetryMax == 3

-----------------------------------------------------------------------------
(* Bounds and input domains.                                               *)

MaxCount == 2
(* the longest value array a list response carries                         *)
MaxLen == 1

GoodAddr == "http://host:6018"
BadAddr == "http://host:6018\n"

(* the addresses and the timeouts, in seconds, NewClient is called with     *)
Servers == {"", GoodAddr, BadAddr}
Timeouts == {-1, 0, 1, 30}

Usernames == {"test", "admin"}
Passwords == {"test"}
AuthTypes == {NTLM, Session, Basic}
Tokens == {"tokA"}
Methods == {"", "test.method"}
Verbs == {GET, POST, DELETE, "[GET"}

(* strings.ToUpper on the strings of the model.                            *)
ToUpper(s) ==
  CASE s = "test" -> "TEST"
    [] s = "admin" -> "ADMIN"
    [] OTHER -> s

-----------------------------------------------------------------------------
(* Header values.  A header value is a sequence of strings; the empty      *)
(* sequence stands for a header that is not in the map.                    *)

HAuthorization == "Authorization"
HWTSAuthorization == "WTS-Authorization"
HWTSSession == "WTS-Session"
HeaderNames == {HAuthorization, HWTSAuthorization, HWTSSession}

NoHeader == <<>>
EmptyHeaders == [h \in HeaderNames |-> NoHeader]

(* fmt.Sprintf("%s/%s", ToUpper(username), ToUpper(password))              *)
WTSAuthorizationValue(u, p) == <<"WTS", ToUpper(u), ToUpper(p)>>
(* the value Login stores under WTS-Session                                *)
WTSSessionValue(tok) == <<"TOKEN", tok>>
(* the value req.SetBasicAuth stores under Authorization                   *)
BasicAuthValue(u, p) == <<"Basic", u, p>>
(* the value the NTLM negotiator leaves under Authorization                *)
NTLMAuthValue == <<"NTLM">>

IsBasic(v) == Len(v) > 0 /\ v[1] = "Basic"

-----------------------------------------------------------------------------
(* JSON bodies.  A body is null, empty, malformed, a top-level array or an *)
(* object; of an object the model keeps the four members the client's      *)
(* response types read: error, odata.count, value and session.             *)

JAbsent == [t |-> "absent", n |-> 0, s |-> ""]
JNull == [t |-> "null", n |-> 0, s |-> ""]
JNum(n) == [t |-> "num", n |-> n, s |-> ""]
JStr(s) == [t |-> "str", n |-> 0, s |-> s]
(* an array of n elements of the caller's element type                     *)
JArr(n) == [t |-> "arr", n |-> n, s |-> ""]
(* {"code": c, "message": {"lang": "", "value": m}}                        *)
JErr(c, m) == [t |-> "obj", n |-> c, s |-> m]

RawBody(k) == [kind |-> k, error |-> JAbsent, count |-> JAbsent,
               value |-> JAbsent, session |-> JAbsent]
BEmpty == RawBody("empty")
BInvalid == RawBody("invalid")
BNull == RawBody("null")
BArray == RawBody("array")
BObject == RawBody("object")
(* a body whose read fails before it is complete                           *)
BUnreadable == RawBody("unreadable")
BError(c, m) == [BObject EXCEPT !.error = JErr(c, m)]
BList(c, v) == [BObject EXCEPT !.count = c, !.value = v]
BLogin(s) == [BObject EXCEPT !.session = s]

(* Bodies a server sends with a status below 400.                          *)
SuccessBodies ==
  {BEmpty, BNull, BObject}
    \cup {BList(JNum(c), JArr(n)) : c \in 1..MaxCount, n \in 0..MaxLen}
    \cup {BList(JAbsent, JArr(1)), BList(JNum(1), JNull), BList(JNum(1), JStr("x")),
          BList(JStr("1"), JArr(1))}
    \cup {BLogin(JStr(t)) : t \in Tokens}
    \cup {BLogin(JNum(1)), BError(400, "Parameter not found")}

(* Bodies a server sends with status 400.                                  *)
ErrorBodies ==
  {BInvalid, BNull, BArray, BError(400, "Parameter not found"), BError(401, "denied")}

Responses ==
  {[status |-> 200, body |-> b] : b \in SuccessBodies}
    \cup {[status |-> 400, body |-> b] : b \in ErrorBodies}
    \cup {[status |-> st, body |-> BUnreadable] : st \in {200, 400}}
    \cup {[status |-> 500, body |-> b] : b \in {BError(500, "Query error"), BInvalid}}
    \cup {[status |-> st, body |-> BError(st, "Query error")] : st \in {429, 501}}

NoResponse == [status |-> 0, body |-> BEmpty]

-----------------------------------------------------------------------------
(* Error values.  kind is the innermost error of the chain, wrap the       *)
(* prefixes fmt.Errorf("...: %w") put in front of it, outermost first.     *)

MkErr(k, c, m) == [kind |-> k, code |-> c, msg |-> m, wrap |-> <<>>]
NoErr == MkErr("nil", 0, "")
Wrap(prefix, e) == [e EXCEPT !.wrap = <<prefix>> \o @]

ErrMethodEmpty == MkErr("validation", 0, "requested method could not be empty")
ErrNoResponse == MkErr("validation", 0, "response should have something to point to")
ErrNewRequest == Wrap("unable to start new request to Millennium: ", MkErr("build", 0, "invalid request"))
ErrSyntax == MkErr("decode", 0, "json: syntax error")
ErrType == MkErr("decode", 0, "json: cannot unmarshal")
ErrInvalidUnmarshal == MkErr("decode", 0, "json: Unmarshal(nil)")
ErrReadAll == Wrap("unable to read body from Millennium response: ", MkErr("read", 0, "transport"))
ErrNoServer == MkErr("config", 0, "no server address defined")
ErrTimeoutZero == MkErr("config", 0, "timeout is zero")
ErrPanic == MkErr("panic", 0, "invalid memory address or nil pointer dereference")

(* ResponseError.Error(): the message value of the envelope               *)
ResponseError(c, m) == MkErr("ResponseError", c, m)

(* err.Error() of any error value                                          *)
ErrorText(e) == e.wrap \o <<e.msg>>
(* the returned value is itself a pointer to ResponseError                 *)
IsResponseError(e) == e.kind = "ResponseError" /\ e.wrap = <<>>
(* errors.As finds a ResponseError in the chain                            *)
AsResponseError(e) == e.kind = "ResponseError"

-----------------------------------------------------------------------------
(* encoding/json as the client uses it.  A decode yields the error and the *)
(* fields the target received.                                             *)

Decoded(e, tok, c, v) == [err |-> e, session |-> tok, count |-> c, value |-> v]

SyntaxOK(body) == body.kind \notin {"empty", "invalid"}

(* json.Unmarshal(bodyRes, &resErr) for the ResponseError struct           *)
UnmarshalResponseError(body) ==
  IF ~SyntaxOK(body) THEN ErrSyntax
  ELSE IF body.kind = "null" THEN ResponseError(0, "")
  ELSE IF body.kind # "object" THEN ErrType
  ELSE IF body.error.t \in {"absent", "null"} THEN ResponseError(0, "")
  ELSE IF body.error.t = "obj" THEN ResponseError(body.error.n, body.error.s)
  ELSE ErrType

(* json.Unmarshal(bodyRes, &output) where output leads to the sink of the  *)
(* call: a ResponseGet, a ResponseLogin, or an empty interface.            *)
Unmarshal(body, sink) ==
  IF ~SyntaxOK(body) THEN Decoded(ErrSyntax, "", 0, JAbsent)
  ELSE IF body.kind = "null" \/ sink = "any" THEN Decoded(NoErr, "", 0, JAbsent)
  ELSE IF body.kind # "object" THEN Decoded(ErrType, "", 0, JAbsent)
  ELSE IF sink = "ResponseLogin" THEN
    IF body.session.t \in {"absent", "null"} THEN Decoded(NoErr, "", 0, JAbsent)
    ELSE IF body.session.t = "str" THEN Decoded(NoErr, body.session.s, 0, JAbsent)
    ELSE Decoded(ErrType, "", 0, JAbsent)
  ELSE (* ResponseGet: Count int, Value pointer to json.RawMessage *)
    LET v == IF body.value.t = "null" THEN JAbsent ELSE body.value
    IN  IF body.count.t \in {"absent", "null"} THEN Decoded(NoErr, "", 0, v)
        ELSE IF body.count.t = "num" THEN Decoded(NoErr, "", body.count.n, v)
        ELSE Decoded(ErrType, "", 0, v)

(* json.Unmarshal of res.Value into response in Get, the caller's target    *)
UnmarshalValue(raw, target) ==
  IF target = "nil" THEN ErrInvalidUnmarshal
  ELSE IF target = "any" \/ raw.t = "arr" THEN NoErr
  ELSE ErrType

(* getResponse that takes an empty body with a status below 400 for a      *)
(* response with nothing to decode                                         *)
getResponseEmptyOK(res, sink) ==
  IF res.body.kind = "unreadable" THEN Decoded(ErrReadAll, "", 0, JAbsent)
  ELSE IF res.status >= 400 THEN
    LET e == UnmarshalResponseError(res.body)
    IN  IF e.kind = "ResponseError" THEN Decoded(e, "", 0, JAbsent)
        ELSE Decoded(Wrap("unable to unmarshal error response: ", e), "", 0, JAbsent)
  ELSE IF res.body.kind = "empty" THEN Decoded(NoErr, "", 0, JArr(0))
  ELSE Unmarshal(res.body, sink)

(* getResponse: the status decides between the error envelope and the sink *)
getResponse(res, sink) ==
  IF res.body.kind = "unreadable" THEN Decoded(ErrReadAll, "", 0, JAbsent)
  ELSE IF res.status >= 400 THEN
    LET e == UnmarshalResponseError(res.body)
    IN  IF e.kind = "ResponseError" THEN Decoded(e, "", 0, JAbsent)
        ELSE Decoded(Wrap("unable to unmarshal error response: ", e), "", 0, JAbsent)
  ELSE Unmarshal(res.body, sink)

-----------------------------------------------------------------------------
(* The retrying transport (retryablehttp.Client with its default policy,   *)
(* as setClient configures it).                                            *)

(* What one round trip of the HTTP client ends in: a response, a network   *)
(* error, an error the policy does not retry, or the context being done.   *)
Outcome(k, r) == [kind |-> k, res |-> r]
Outcomes ==
  {Outcome("response", r) : r \in Responses}
    \cup {Outcome(k, NoResponse) : k \in {"neterr", "fatalerr", "ctx"}}

(* CheckRetry that goes on to another attempt when the context is done     *)
CheckRetryPastDeadline(o) ==
  CASE o.kind = "fatalerr" -> FALSE
    [] o.kind \in {"neterr", "ctx"} -> TRUE
    [] OTHER -> \/ o.res.status = 429
                \/ o.res.status = 0
                \/ (o.res.status >= 500 /\ o.res.status # 501)

(* Client.CheckRetry: the default retry policy                             *)
CheckRetry(o) ==
  CASE o.kind = "ctx" -> FALSE
    [] o.kind = "fatalerr" -> FALSE
    [] o.kind = "neterr" -> TRUE
    [] OTHER -> \/ o.res.status = 429
                \/ o.res.status = 0
                \/ (o.res.status >= 500 /\ o.res.status # 501)

(* The error Client.Do returns after `attempts` attempts when it does not  *)
(* hand the response back.                                                 *)
ErrGivingUp(o, attempts) ==
  Wrap("giving up after attempt(s)",
       IF o.kind = "response" THEN MkErr("giveup", attempts, "")
       ELSE MkErr(o.kind, attempts, "transport"))

(* The decided call: what sendRequest returns once Client.Do has returned. *)
sendRequest(o, attempts, sink) ==
  IF o.kind = "response" /\ ~CheckRetry(o)
  THEN getResponse(o.res, sink)
  ELSE Decoded(Wrap("unable to send request: ", ErrGivingUp(o, attempts)), "", 0, JAbsent)

(* The header maps a round trip can leave behind.  The request shares the  *)
(* client's header map; the negotiator Login installs for NTLM rewrites    *)
(* the Authorization entry of a request that carries basic credentials.    *)
AfterRoundTrip(h, tr) ==
  IF tr = "ntlm" /\ IsBasic(h[HAuthorization])
  THEN {h, [h EXCEPT ![HAuthorization] = NoHeader],
           [h EXCEPT ![HAuthorization] = NTLMAuthValue]}
  ELSE {h}

-----------------------------------------------------------------------------
(* Clients created side by side.                                           *)

ClientIds == {1, 2}
ClientTokens == {"tokA", "tokB"}

(* What NewClient returns: the client, with the fields of Millennium, the  *)
(* headers of the last request sent on it and the parity of the number of  *)
(* operations called on it, or no client and the error.                    *)
FreshClient(server, timeout) ==
  [made |-> TRUE, err |-> NoErr, ops |-> 0, ServerAddr |-> server, Timeout |-> timeout,
   credentials |-> [Username |-> "", Password |-> "", AuthType |-> "", Session |-> ""],
   headers |-> EmptyHeaders, transport |-> "default", sent |-> EmptyHeaders]
(* the variable of the application before NewClient has given it a client  *)
NoClient == [FreshClient("", 0) EXCEPT !.made = FALSE]

-----------------------------------------------------------------------------
(* Query parameters.  A string is the sequence of its pieces: the pieces   *)
(* are the characters that delimit a URL and a query, and the runs of      *)
(* other characters between them.                                          *)

(* the longest list of values the parameter maps of the model hold per key *)
MaxVals == 3

(* method names as the pieces they are made of                             *)
PathMethods == {<<>>, <<"test.method">>, <<"a", "#", "b">>, <<"a", "?", "b">>}

ParamKeys == {"$dateformat", "$format", "k"}
(* the keys as sort.Strings orders them                                    *)
KeyOrder == <<"$dateformat", "$format", "k">>

(* url.Values: a nil one, or a map from keys to lists of values; a key     *)
(* with the empty list stands for a key that is not in the map             *)
EmptyValues == [k \in ParamKeys |-> <<>>]
Values(f) == [nil |-> FALSE, vals |-> f]
NilParams == [nil |-> TRUE, vals |-> EmptyValues]
(* the maps a caller passes                                                *)
CallerParams ==
  {NilParams} \cup
    {Values([EmptyValues EXCEPT !["$format"] = f, !["$dateformat"] = d, !["k"] = g]) :
       f \in {<<>>, <<"xml">>}, d \in {<<>>, <<"dmy">>},
       g \in {<<>>, <<"a&b">>, <<"xml", "a&b">>}}

(* Values.Add                                                              *)
Add(v, key, value) == [v EXCEPT !.vals[key] = Append(@, value)]

(* url.QueryEscape and url.QueryUnescape on the strings of the model       *)
QueryEscape(str) ==
  CASE str = "$format" -> "%24format"
    [] str = "$dateformat" -> "%24dateformat"
    [] str = "a&b" -> "a%26b"
    [] OTHER -> str
QueryUnescape(str) ==
  CASE str = "%24format" -> "$format"
    [] str = "%24dateformat" -> "$dateformat"
    [] str = "a%26b" -> "a&b"
    [] OTHER -> str

RECURSIVE Flatten(_)
Flatten(ss) == IF ss = <<>> THEN <<>> ELSE Head(ss) \o Flatten(Tail(ss))

(* Values.Encode: the keys in sorted order, each value of a key in the     *)
(* order of its list, key and value escaped, the pairs joined by "&"       *)
PairsOf(v) ==
  Flatten([i \in 1..Len(KeyOrder) |->
             [j \in 1..Len(v.vals[KeyOrder[i]]) |->
                <<KeyOrder[i], v.vals[KeyOrder[i]][j]>>]])
Encode(v) ==
  Flatten([i \in 1..Len(PairsOf(v)) |->
             (IF i = 1 THEN <<>> ELSE <<"&">>)
               \o <<QueryEscape(PairsOf(v)[i][1]), "=", QueryEscape(PairsOf(v)[i][2])>>])

(* fmt.Sprintf("%s/api/%s?%s", ServerAddr, Method, Params.Encode())        *)
RequestURL(addr, method, v) == <<addr, "/api/">> \o method \o <<"?">> \o Encode(v)

(* strings.Index and strings.Cut on sequences of pieces                    *)
IndexOf(str, piece) ==
  IF \E i \in 1..Len(str) : str[i] = piece
  THEN CHOOSE i \in 1..Len(str) : str[i] = piece /\ \A j \in 1..(i - 1) : str[j] # piece
  ELSE 0
Before(str, piece) ==
  IF IndexOf(str, piece) = 0 THEN str ELSE SubSeq(str, 1, IndexOf(str, piece) - 1)
After(str, piece) ==
  IF IndexOf(str, piece) = 0 THEN <<>> ELSE SubSeq(str, IndexOf(str, piece) + 1, Len(str))

(* url.Parse: the fragment is cut off at the first "#", then the query at  *)
(* the first "?"; RawQuery is what the request carries as its query string *)
RawQuery(u) == After(Before(u, "#"), "?")

(* url.ParseQuery: the pairs of the query string, key and value unescaped  *)
RECURSIVE Split(_, _)
Split(str, sep) ==
  IF IndexOf(str, sep) = 0 THEN <<str>>
  ELSE <<Before(str, sep)>> \o Split(After(str, sep), sep)
Unescaped(str) == [i \in 1..Len(str) |-> QueryUnescape(str[i])]
ParseQuery(raw) ==
  LET parts == SelectSeq(Split(raw, "&"), LAMBDA part : part # <<>>)
  IN  [i \in 1..Len(parts) |->
         [key |-> Unescaped(Before(parts[i], "=")),
          value |-> Unescaped(After(parts[i], "="))]]

(* the request Request has built last, for the parameters `given`          *)
NoRequest == [verb |-> "", method |-> <<>>, given |-> NilParams, url |-> <<>>, err |-> NoErr]

(* Goroutines of the application that call Get, Post and Delete on the     *)
(* client: where each one is inside Request, the header map its request    *)
(* has when Request has set it up, and the one the transport is handed.    *)
Callers == {1, 2}
IdleCaller == [pc |-> "idle", verb |-> "", expect |-> EmptyHeaders, sent |-> EmptyHeaders]

-----------------------------------------------------------------------------
(* The call in progress and, once it has returned, what it returned.       *)

Idle ==
  [pc |-> "idle", op |-> "none", username |-> "", password |-> "",
   authType |-> "", verb |-> "", method |-> "",
   sink |-> "nil", target |-> "nil", attempts |-> 0, built |-> EmptyHeaders,
   res |-> NoResponse, err |-> NoErr, count |-> 0, decoded |-> 0]

NewCall(op, authType, verb, method, sink, target) ==
  [Idle EXCEPT !.op = op, !.authType = authType, !.verb = verb,
               !.method = method, !.sink = sink, !.target = target]

(* The error NewClient returns for a server address and a timeout          *)
NewClientErr(server, timeout) ==
  IF server = "" THEN ErrNoServer
  ELSE IF timeout = 0 THEN ErrTimeoutZero
  ELSE NoErr

(* NewClient: the state after construction.  The address is not parsed at  *)
(* construction, so a client may hold one no request can be built for.     *)
NewClient(server, timeout) ==
  /\ NewClientErr(server, timeout) = NoErr
  /\ ServerAddr = server
  /\ credentials = [Username |-> "", Password |-> "", AuthType |-> "", Session |-> ""]
  /\ headers = EmptyHeaders
  /\ transport = "default"
  /\ call = Idle

Init ==
  /\ \E server \in Servers, timeout \in Timeouts : NewClient(server, timeout)
  /\ clients = [i \in ClientIds |-> NoClient]
  /\ params = NilParams
  /\ request = NoRequest
  /\ callers = [c \in Callers |-> IdleCaller]

-----------------------------------------------------------------------------
(* The operations.                                                         *)

Failed(e) == Decoded(e, "", 0, JAbsent)

(* SessionHeaders with the token header left as it was                     *)
SessionHeadersStale(h, tok) ==
  [h EXCEPT ![HWTSAuthorization] = NoHeader]

(* SessionHeaders with Header.Add in place of Header.Set: the value read   *)
(* under WTS-Session stays the one of the first login                      *)
SessionHeadersAdd(h, tok) ==
  [h EXCEPT ![HWTSAuthorization] = NoHeader,
            ![HWTSSession] = IF @ = NoHeader THEN WTSSessionValue(tok) ELSE @]

(* SessionHeaders without the Del of WTS-Authorization                     *)
SessionHeadersKeepAuth(h, tok) ==
  [h EXCEPT ![HWTSSession] = WTSSessionValue(tok)]

(* Login, after its Post has returned nil: the header map it leaves        *)
SessionHeaders(h, tok) ==
  [h EXCEPT ![HWTSAuthorization] = NoHeader, ![HWTSSession] = WTSSessionValue(tok)]

(* GetResult with the length of the decoded array as the count             *)
GetResultLen(d, target) ==
  IF d.value.t = "absent" THEN [count |-> 0, err |-> ErrPanic, decoded |-> 0]
  ELSE LET e == UnmarshalValue(d.value, target)
       IN  IF e # NoErr
           THEN [count |-> 0, err |-> Wrap("unable to unmarshal JSON: ", e), decoded |-> 0]
           ELSE [count |-> d.value.n, err |-> NoErr, decoded |-> d.value.n]

(* Get, after Request has returned nil: the count and error it returns and *)
(* the number of elements the caller's target holds                        *)
GetResult(d, target) ==
  IF d.value.t = "absent" THEN [count |-> 0, err |-> ErrPanic, decoded |-> 0]
  ELSE LET e == UnmarshalValue(d.value, target)
       IN  IF e # NoErr
           THEN [count |-> 0, err |-> Wrap("unable to unmarshal JSON: ", e), decoded |-> 0]
           ELSE [count |-> d.count, err |-> NoErr, decoded |-> d.value.n]

(* The rest of the operation c.op once its Request has returned d.err,     *)
(* with h and cr the header map and the credentials at that point.         *)
Finish(c, d, h, cr) ==
  IF c.op = "Login" THEN
    IF d.err # NoErr
    THEN /\ call' = [c EXCEPT !.pc = "done", !.err = d.err]
         /\ headers' = h
         /\ credentials' = cr
    ELSE /\ call' = [c EXCEPT !.pc = "done", !.err = NoErr]
         /\ headers' = SessionHeaders(h, d.session)
         /\ credentials' = [cr EXCEPT !.Session = d.session, !.AuthType = c.authType]
  ELSE
    /\ headers' = h
    /\ credentials' = cr
    /\ IF c.op = "Get" THEN
         IF d.err # NoErr
         THEN call' = [c EXCEPT !.pc = "done", !.count = 0,
                 !.err = Wrap("unable to make the request to Millennium: ", d.err)]
         ELSE LET r == GetResult(d, c.target)
              IN  call' = [c EXCEPT !.pc = "done", !.count = r.count, !.err = r.err,
                                    !.decoded = r.decoded]
       ELSE call' = [c EXCEPT !.pc = "done", !.err = d.err]

(* Validate with the sink required for POST alone                          *)
ValidatePostOnly(verb, method, sink) ==
  IF method = "" THEN ErrMethodEmpty
  ELSE IF sink = "nil" /\ verb \in {POST} THEN ErrNoResponse
  ELSE NoErr

(* The checks Request makes before it builds anything                      *)
Validate(verb, method, sink) ==
  IF method = "" THEN ErrMethodEmpty
  ELSE IF sink = "nil" /\ verb \in {POST, GET} THEN ErrNoResponse
  ELSE NoErr

(* retryablehttp.NewRequestWithContext: fails on a verb that is no token   *)
(* and on an address url.Parse rejects                                     *)
NewRequest(verb, addr) ==
  IF verb \notin {GET, POST, DELETE} \/ addr = BadAddr THEN ErrNewRequest ELSE NoErr

(* req.Header = m.headers, then SetBasicAuth on it when the mode is NTLM:  *)
(* the request and the client hold the same map                            *)
AttachHeaders(h, cr) ==
  IF cr.AuthType = NTLM
  THEN [h EXCEPT ![HAuthorization] = BasicAuthValue(cr.Username, cr.Password)]
  ELSE h

(* Request, up to the dispatch of the request it built                     *)
Request(c, h, cr) ==
  IF Validate(c.verb, c.method, c.sink) # NoErr
  THEN Finish(c, Failed(Validate(c.verb, c.method, c.sink)), h, cr)
  ELSE IF NewRequest(c.verb, ServerAddr) # NoErr
  THEN Finish(c, Failed(NewRequest(c.verb, ServerAddr)), h, cr)
  ELSE /\ call' = [c EXCEPT !.pc = "dispatch", !.built = AttachHeaders(h, cr)]
       /\ headers' = AttachHeaders(h, cr)
       /\ credentials' = cr

Ready == call.pc \in {"idle", "done"}

(* Login that sends the login request in every mode but NTLM               *)
LoginAlwaysPosts(username, password, authType) ==
  /\ Ready
  /\ transport' = IF authType = NTLM THEN "ntlm" ELSE transport
  /\ UNCHANGED <<ServerAddr, aside>>
  /\ LET cr == [credentials EXCEPT !.Username = username, !.Password = password]
         lc(v, m, s) == [NewCall("Login", authType, v, m, s, "nil")
                           EXCEPT !.username = username, !.password = password]
     IN  IF authType # NTLM
         THEN Request(lc(POST, "login", "ResponseLogin"),
                      [headers EXCEPT ![HWTSAuthorization] =
                                        WTSAuthorizationValue(username, password)],
                      cr)
         ELSE /\ credentials' = [cr EXCEPT !.AuthType = authType]
              /\ headers' = headers
              /\ call' = [lc("", "", "nil") EXCEPT !.pc = "done"]

Login(username, password, authType) ==
  /\ Ready
  /\ transport' = IF authType = NTLM THEN "ntlm" ELSE transport
  /\ UNCHANGED <<ServerAddr, aside>>
  /\ LET cr == [credentials EXCEPT !.Username = username, !.Password = password]
         lc(v, m, s) == [NewCall("Login", authType, v, m, s, "nil")
                           EXCEPT !.username = username, !.password = password]
     IN  IF authType = Session
         THEN Request(lc(POST, "login", "ResponseLogin"),
                      [headers EXCEPT ![HWTSAuthorization] =
                                        WTSAuthorizationValue(username, password)],
                      cr)
         ELSE /\ credentials' = [cr EXCEPT !.AuthType = authType]
              /\ headers' = headers
              /\ call' = [lc("", "", "nil") EXCEPT !.pc = "done"]

Get(method, target) ==
  /\ Ready
  /\ Request(NewCall("Get", "", GET, method, "ResponseGet", target), headers, credentials)
  /\ UNCHANGED <<ServerAddr, transport, aside>>

Post(method, sink) ==
  /\ Ready
  /\ Request(NewCall("Post", "", POST, method, sink, "nil"), headers, credentials)
  /\ UNCHANGED <<ServerAddr, transport, aside>>

Delete(method) ==
  /\ Ready
  /\ Request(NewCall("Delete", "", DELETE, method, "nil", "nil"), headers, credentials)
  /\ UNCHANGED <<ServerAddr, transport, aside>>

(* Request called by the application itself                                *)
CallRequest(verb, method, sink) ==
  /\ Ready
  /\ Request(NewCall("Request", "", verb, method, sink, "nil"), headers, credentials)
  /\ UNCHANGED <<ServerAddr, transport, aside>>

(* Do that goes on as long as the policy asks for another attempt          *)
DoUnbounded(o, h) ==
  /\ call.pc = "dispatch"
  /\ LET c == [call EXCEPT !.attempts = @ + 1, !.res = o.res]
     IN  IF CheckRetry(o)
         THEN /\ call' = [c EXCEPT !.pc = "backoff"]
              /\ headers' = h
              /\ UNCHANGED credentials
         ELSE Finish(c, sendRequest(o, c.attempts, IF c.sink = "nil" THEN "any" ELSE c.sink),
                     h, credentials)
  /\ UNCHANGED <<ServerAddr, transport, aside>>

(* One attempt of Client.Do: the round trip, the retry decision, and, when *)
(* Do returns, sendRequest, getResponse and the rest of the operation.     *)
Do(o, h) ==
  /\ call.pc = "dispatch"
  /\ LET c == [call EXCEPT !.attempts = @ + 1, !.res = o.res]
     IN  IF CheckRetry(o) /\ RetryMax - call.attempts > 0
         THEN /\ call' = [c EXCEPT !.pc = "backoff"]
              /\ headers' = h
              /\ UNCHANGED credentials
         ELSE Finish(c, sendRequest(o, c.attempts, IF c.sink = "nil" THEN "any" ELSE c.sink),
                     h, credentials)
  /\ UNCHANGED <<ServerAddr, transport, aside>>

(* The backoff wait between two attempts elapses                           *)
Backoff ==
  /\ call.pc = "backoff"
  /\ call' = [call EXCEPT !.pc = "dispatch"]
  /\ UNCHANGED <<ServerAddr, credentials, headers, transport, aside>>

(* The context is done during the backoff wait: Do returns its error       *)
BackoffCancelled ==
  /\ call.pc = "backoff"
  /\ Finish(call, Failed(Wrap("unable to send request: ",
                              MkErr("ctx", call.attempts, "transport"))),
            headers, credentials)
  /\ UNCHANGED <<ServerAddr, transport, aside>>

Next ==
  \/ \E u \in Usernames, p \in Passwords, a \in AuthTypes : Login(u, p, a)
  \/ \E m \in Methods, t \in {"slice", "nil"} : Get(m, t)
  \/ \E m \in Methods, s \in {"any", "ResponseLogin"} : Post(m, s)
  \/ \E m \in Methods : Delete(m)
  \/ \E v \in Verbs, m \in Methods, s \in {"nil", "any"} : CallRequest(v, m, s)
  \/ \E o \in Outcomes : \E h \in AfterRoundTrip(headers, transport) : Do(o, h)
  \/ Backoff
  \/ BackoffCancelled

Spec == Init /\ [][Next]_vars

-----------------------------------------------------------------------------
(* Two clients of one application.  Login and the calls are taken as one   *)
(* step each, with the outcome the transport ends the call with.           *)

ClientOutcomes ==
  {Outcome("response", [status |-> 200, body |-> BLogin(JStr(t))]) : t \in ClientTokens}
    \cup {Outcome("response", [status |-> 400, body |-> BError(401, "denied")]),
          Outcome("neterr", NoResponse)}

NewClientResult(server, timeout) ==
  IF NewClientErr(server, timeout) # NoErr
  THEN [NoClient EXCEPT !.err = NewClientErr(server, timeout)]
  ELSE FreshClient(server, timeout)

(* Store with the session token in a variable of the package, one for all  *)
(* clients                                                                 *)
StoreShared(cs, i, cl) ==
  [j \in DOMAIN cs |->
     IF j = i THEN cl
     ELSE IF cs[j].made
     THEN [cs[j] EXCEPT !.credentials.Session = cl.credentials.Session,
                        !.headers[HWTSSession] = cl.headers[HWTSSession]]
     ELSE cs[j]]

(* The fields a method writes are those of its receiver m                  *)
Store(cs, i, cl) == [cs EXCEPT ![i] = cl]

(* an operation is called on the client cl                                 *)
Called(cl) == [cl EXCEPT !.ops = 1 - @]

(* Request on the client cl with the header map h and the credentials cr,  *)
(* the transport ending it with o and leaving the header map h2            *)
RequestOn(cl, verb, method, sink, h, cr, o, h2) ==
  IF Validate(verb, method, sink) # NoErr
  THEN [headers |-> h, sent |-> cl.sent, d |-> Failed(Validate(verb, method, sink))]
  ELSE IF NewRequest(verb, cl.ServerAddr) # NoErr
  THEN [headers |-> h, sent |-> cl.sent, d |-> Failed(NewRequest(verb, cl.ServerAddr))]
  ELSE [headers |-> h2, sent |-> AttachHeaders(h, cr),
        d |-> sendRequest(o, IF CheckRetry(o) THEN RetryMax + 1 ELSE 1, sink)]

CreateClient(i, server, timeout) ==
  /\ ~clients[i].made
  /\ clients' = Store(clients, i, NewClientResult(server, timeout))
  /\ UNCHANGED <<client, params, request, callers>>

(* the header maps the round trip of a Session Login can leave behind      *)
LoginRoundTrips(cl, username, password, authType) ==
  AfterRoundTrip(
    AttachHeaders([cl.headers EXCEPT ![HWTSAuthorization] =
                                       WTSAuthorizationValue(username, password)],
                  [cl.credentials EXCEPT !.Username = username, !.Password = password]),
    IF authType = NTLM THEN "ntlm" ELSE cl.transport)

(* Login on the client cl, the transport ending its request with o and     *)
(* leaving the header map h2: the client it leaves                         *)
LoginOn(cl, username, password, authType, o, h2) ==
  LET cr == [cl.credentials EXCEPT !.Username = username, !.Password = password]
      tr == IF authType = NTLM THEN "ntlm" ELSE cl.transport
      h == [cl.headers EXCEPT ![HWTSAuthorization] =
                                WTSAuthorizationValue(username, password)]
      r == RequestOn(cl, POST, "login", "ResponseLogin", h, cr, o, h2)
  IN  IF authType # Session
      THEN [cl EXCEPT !.credentials = [cr EXCEPT !.AuthType = authType], !.transport = tr]
      ELSE IF r.d.err # NoErr
      THEN [cl EXCEPT !.credentials = cr, !.transport = tr,
                      !.headers = r.headers, !.sent = r.sent]
      ELSE [cl EXCEPT !.credentials = [cr EXCEPT !.Session = r.d.session,
                                                 !.AuthType = authType],
                      !.transport = tr,
                      !.headers = SessionHeaders(r.headers, r.d.session),
                      !.sent = r.sent]

ClientLogin(i, username, password, authType, o) ==
  /\ clients[i].made
  /\ \E h2 \in LoginRoundTrips(clients[i], username, password, authType) :
       clients' = Store(clients, i,
                        LoginOn(Called(clients[i]), username, password, authType, o, h2))
  /\ UNCHANGED <<client, params, request, callers>>

ClientCall(i, verb, method, o) ==
  /\ clients[i].made
  /\ LET cl == Called(clients[i])
     IN  \E h2 \in AfterRoundTrip(AttachHeaders(cl.headers, cl.credentials), cl.transport) :
           LET r == RequestOn(cl, verb, method, "any", cl.headers, cl.credentials, o, h2)
           IN  clients' = Store(clients, i, [cl EXCEPT !.headers = r.headers, !.sent = r.sent])
  /\ UNCHANGED <<client, params, request, callers>>

(* NewClient called with every address and every timeout                   *)
NextNew ==
  \E i \in ClientIds, server \in Servers, timeout \in Timeouts :
    CreateClient(i, server, timeout)

SpecNew == Init /\ [][NextNew]_vars

NextClients ==
  \/ \E i \in ClientIds : CreateClient(i, GoodAddr, 30)
  \/ \E i \in ClientIds, u \in {"test"}, p \in Passwords, a \in {NTLM, Session} :
        \E o \in IF a = Session THEN ClientOutcomes ELSE {Outcome("neterr", NoResponse)} :
          ClientLogin(i, u, p, a, o)
  \/ \E i \in ClientIds, m \in Methods, o \in ClientOutcomes : ClientCall(i, GET, m, o)

SpecClients == Init /\ [][NextClients]_vars

-----------------------------------------------------------------------------
(* Several callers on the one client.  Request is taken in the steps in    *)
(* which it touches the header map: the write of SetBasicAuth, which       *)
(* begins and ends, and the hand-over of the request to the transport.     *)

(* the client of the variables, as a client record                         *)
ThisClient ==
  [FreshClient(ServerAddr, 30) EXCEPT !.credentials = credentials,
                                      !.headers = headers, !.transport = transport]

AllIdle == \A c \in Callers : callers[c].pc = "idle"

(* Login while no call is in progress                                      *)
LoginIdle(username, password, authType, o) ==
  /\ AllIdle
  /\ \E h2 \in LoginRoundTrips(ThisClient, username, password, authType) :
       LET cl == LoginOn(ThisClient, username, password, authType, o, h2)
       IN  /\ credentials' = cl.credentials
           /\ headers' = cl.headers
           /\ transport' = cl.transport
  /\ UNCHANGED <<ServerAddr, call, clients, params, request, callers>>

(* Request up to req.Header = m.headers; in NTLM mode SetBasicAuth begins  *)
(* to write the map                                                        *)
Enter(c, verb) ==
  /\ callers[c].pc = "idle"
  /\ NewRequest(verb, ServerAddr) = NoErr
  /\ callers' = [callers EXCEPT ![c] =
         IF credentials.AuthType = NTLM
         THEN [IdleCaller EXCEPT !.pc = "writing", !.verb = verb]
         ELSE [IdleCaller EXCEPT !.pc = "built", !.verb = verb, !.expect = headers]]
  /\ UNCHANGED <<client, clients, params, request>>

(* SetBasicAuth has written the Authorization entry of the shared map      *)
SetBasicAuth(c) ==
  /\ callers[c].pc = "writing"
  /\ headers' = AttachHeaders(headers, credentials)
  /\ callers' = [callers EXCEPT ![c].pc = "built",
                                ![c].expect = AttachHeaders(headers, credentials)]
  /\ UNCHANGED <<ServerAddr, credentials, transport, call, clients, params, request>>

(* two goroutines write the map at once and the runtime stops the program  *)
(* with "concurrent map writes"                                            *)
Fatal ==
  /\ \E c, d \in Callers : c # d /\ callers[c].pc = "writing" /\ callers[d].pc = "writing"
  /\ callers' = [c \in Callers |-> [callers[c] EXCEPT !.pc = "fatal"]]
  /\ UNCHANGED <<client, clients, params, request>>

(* the transport is handed the request, whose header map is the shared one *)
Send(c) ==
  /\ callers[c].pc = "built"
  /\ callers' = [callers EXCEPT ![c].pc = "sent", ![c].sent = headers]
  /\ headers' \in AfterRoundTrip(headers, transport)
  /\ UNCHANGED <<ServerAddr, credentials, transport, call, clients, params, request>>

Return(c) ==
  /\ callers[c].pc = "sent"
  /\ callers' = [callers EXCEPT ![c] = IdleCaller]
  /\ UNCHANGED <<client, clients, params, request>>

NextCallers ==
  \/ \E u \in {"test"}, p \in Passwords, a \in {NTLM, Session} :
        \E o \in IF a = Session THEN ClientOutcomes ELSE {Outcome("neterr", NoResponse)} :
          LoginIdle(u, p, a, o)
  \/ \E c \in Callers, v \in {GET, POST, DELETE} : Enter(c, v)
  \/ \E c \in Callers : SetBasicAuth(c)
  \/ Fatal
  \/ \E c \in Callers : Send(c)
  \/ \E c \in Callers : Return(c)

SpecCallers == Init /\ [][NextCallers]_vars

-----------------------------------------------------------------------------
(* The parameters of a call and the address Request builds from them.  The *)
(* caller keeps its map and may pass it again.                             *)

(* r.Params after the nil test: the caller's map itself, or a new one      *)
Normalized(v) == IF v.nil THEN Values(EmptyValues) ELSE v
(* r.Params after the two Add calls                                        *)
WithFixed(v) == Add(Add(Normalized(v), "$format", "json"), "$dateformat", "iso")

(* Request up to NewRequestWithContext, for a sink that is not nil         *)
BuildRequest(verb, method, given) ==
  IF method = <<>>
  THEN [NoRequest EXCEPT !.verb = verb, !.given = given, !.err = ErrMethodEmpty]
  ELSE IF NewRequest(verb, ServerAddr) # NoErr
  THEN [NoRequest EXCEPT !.verb = verb, !.method = method, !.given = given,
                         !.err = NewRequest(verb, ServerAddr)]
  ELSE [verb |-> verb, method |-> method, given |-> given,
        url |-> RequestURL(ServerAddr, method, WithFixed(given)), err |-> NoErr]

(* the caller's map after Request has run on it                            *)
AfterRequest(method, given) ==
  IF method = <<>> \/ given.nil THEN given ELSE WithFixed(given)

Fits(v) == \A k \in ParamKeys : Len(v.vals[k]) < MaxVals

(* the caller makes a map of parameters, or takes nil                      *)
MakeParams(v) ==
  /\ params' = v
  /\ UNCHANGED <<client, clients, request, callers>>

(* Get and Delete with the caller's map, Post with the map it makes itself *)
GetWith(method) ==
  /\ Fits(params)
  /\ request' = BuildRequest(GET, method, params)
  /\ params' = AfterRequest(method, params)
  /\ UNCHANGED <<client, clients, callers>>

DeleteWith(method) ==
  /\ Fits(params)
  /\ request' = BuildRequest(DELETE, method, params)
  /\ params' = AfterRequest(method, params)
  /\ UNCHANGED <<client, clients, callers>>

PostWith(method) ==
  /\ request' = BuildRequest(POST, method, Values(EmptyValues))
  /\ UNCHANGED <<client, clients, params, callers>>

NextParams ==
  \/ \E v \in CallerParams : MakeParams(v)
  \/ \E m \in PathMethods : GetWith(m)
  \/ \E m \in PathMethods : DeleteWith(m)
  \/ \E m \in PathMethods : PostWith(m)

SpecParams == Init /\ [][NextParams]_vars

-----------------------------------------------------------------------------
(* Observations the properties are stated with.                            *)

(* the operation in progress or returned has handed a request to the       *)
(* transport                                                               *)
Dispatched == call.pc \in {"dispatch", "backoff"} \/ (call.pc = "done" /\ call.attempts > 0)
Returned == call.pc = "done"
IsFacadeCall == call.op \in {"Get", "Post", "Delete"}
IsSessionLogin == call.op = "Login" /\ call.authType = Session
(* the body is an object with a well-formed error member                   *)
ValidEnvelope(body) == body.kind = "object" /\ body.error.t = "obj"
(* the session member of a login response body, as a string                *)
SessionOf(body) ==
  IF body.kind = "object" /\ body.session.t = "str" THEN body.session.s ELSE ""

-----------------------------------------------------------------------------
(* Properties.                                                             *)

(* C1: once a Session Login has returned, with nil or with an error, the  *)
(* header map holds no WTS-Authorization, and no Get, Post or Delete sends *)
(* a request that carries it.                                              *)
C1_TransientHeaderRemoved ==
  /\ (Returned /\ IsSessionLogin /\ call.attempts > 0) =>
        headers[HWTSAuthorization] = NoHeader
  /\ (IsFacadeCall /\ Dispatched) => call.built[HWTSAuthorization] = NoHeader

(* C2: a Session Login that returns nil has stored the session member of   *)
(* the login response as the session token and under WTS-Session, and      *)
(* every Get, Post and Delete dispatched while that login is the latest    *)
(* one carries WTS-Session with exactly the stored token.                  *)
C2_SessionHeaderCarried ==
  /\ (Returned /\ IsSessionLogin /\ call.err = NoErr) =>
        /\ credentials.Session = SessionOf(call.res.body)
        /\ headers[HWTSSession] = WTSSessionValue(SessionOf(call.res.body))
  /\ (IsFacadeCall /\ Dispatched /\ credentials.AuthType = Session) =>
        call.built[HWTSSession] = WTSSessionValue(credentials.Session)

C2_Witness ==
  /\ call.op = "Get" /\ Returned /\ call.attempts > 0
  /\ credentials.AuthType = Session
  /\ credentials.Session = "tokA"
  /\ call.built[HWTSSession] = WTSSessionValue("tokA")

(* C3: a Session Login that returns on a response with a status of 400 or *)
(* more and a valid error envelope returns a ResponseError whose text is   *)
(* the message of the envelope, and it sets no WTS-Session header.         *)
C3_FailedLoginRemoteError ==
  [][(call' # call /\ call'.pc = "done" /\ call'.op = "Login"
        /\ call'.authType = Session /\ call'.attempts > 0
        /\ call'.err.kind # "ctx"
        /\ call'.res.status >= 400 /\ ValidEnvelope(call'.res.body)) =>
          /\ IsResponseError(call'.err)
          /\ ErrorText(call'.err) = <<call'.res.body.error.s>>
          /\ headers'[HWTSSession] = headers[HWTSSession]]_vars

(* C4: when a Session Login returns an error, the credentials hold the     *)
(* username, the password and the auth-mode it was called with, and the    *)
(* session token is the one held before.                                   *)
C4_FailedLoginRecordsCredentials ==
  [][(call' # call /\ call'.pc = "done" /\ call'.op = "Login"
        /\ call'.authType = Session /\ call'.attempts > 0
        /\ call'.err # NoErr) =>
          /\ credentials'.Username = call'.username
          /\ credentials'.Password = call'.password
          /\ credentials'.AuthType = Session
          /\ credentials'.Session = credentials.Session]_vars

(* C5: a request built while the auth-mode is NTLM or Basic carries no     *)
(* WTS-Session header.                                                     *)
C5_SessionHeaderOnlyInSessionMode ==
  (Dispatched /\ call.op # "Login" /\ credentials.AuthType \in {NTLM, Basic}) =>
     call.built[HWTSSession] = NoHeader

(* C6: a request built while the auth-mode is NTLM or Basic carries the    *)
(* basic-auth credentials made from the stored username and password.      *)
C6_BasicAuthAttached ==
  (Dispatched /\ call.op # "Login" /\ credentials.AuthType \in {NTLM, Basic}) =>
     call.built[HAuthorization] =
       BasicAuthValue(credentials.Username, credentials.Password)

(* C7: Request with an empty method name, or with a nil sink and the verb  *)
(* GET or POST, returns a validation error and dispatches nothing; a nil   *)
(* sink with the verb DELETE passes validation.                            *)
C7_ValidationBeforeDispatch ==
  /\ (call.pc # "idle" /\ (call.method = "" \/ (call.sink = "nil" /\ call.verb \in {GET, POST}))
        /\ ~(call.op = "Login" /\ call.authType # Session)) =>
        /\ Returned
        /\ call.err.kind = "validation"
        /\ call.attempts = 0
  /\ (call.pc # "idle" /\ call.method # "" /\ call.sink = "nil" /\ call.verb = DELETE) =>
        call.err.kind # "validation"

C7_Witness ==
  /\ Returned /\ call.op = "Request" /\ call.verb = GET
  /\ call.method # "" /\ call.sink = "nil"
  /\ call.err = ErrNoResponse /\ call.attempts = 0

(* C8: for a response with a status of 400 or more and a valid error       *)
(* envelope, Get, Post and Delete return a ResponseError whose text is the *)
(* message of the envelope and whose code is its code; a ResponseError is  *)
(* returned only for a status of 400 or more.                              *)
C8_RemoteErrorSurfaced ==
  /\ (Returned /\ IsFacadeCall /\ call.attempts > 0
        /\ call.res.status >= 400 /\ ValidEnvelope(call.res.body)) =>
        /\ IsResponseError(call.err)
        /\ ErrorText(call.err) = <<call.res.body.error.s>>
        /\ call.err.code = call.res.body.error.n
  /\ (Returned /\ AsResponseError(call.err)) => call.res.status >= 400

(* C9: a Get answered with status 400 or with status 500 and a valid error *)
(* envelope returns count 0 and an error that is a ResponseError carrying  *)
(* the message of the envelope.                                            *)
C9_ListRemoteError ==
  (Returned /\ call.op = "Get" /\ call.attempts > 0 /\ call.err.kind # "ctx"
     /\ call.res.status \in {400, 500} /\ ValidEnvelope(call.res.body)) =>
        /\ call.count = 0
        /\ AsResponseError(call.err)
        /\ call.err.msg = call.res.body.error.s

(* C10: a first response with a status of 400 or more ends the dispatch:   *)
(* the call returns after that one attempt.                                *)
C10_NoRetryOnStatus ==
  [][(call.pc = "dispatch" /\ call.attempts = 0 /\ call'.attempts = 1
        /\ call'.res.status >= 400) => call'.pc = "done"]_vars

(* C11: an attempt that ends because the deadline of the call or the       *)
(* context of the client is done, and a backoff wait that ends for the     *)
(* same reason, make the call return an error of the cancellation kind     *)
(* under the prefix of sendRequest, with a zero count for a Get; no        *)
(* further attempt of that call follows.                                   *)
C11_CancellationEndsCall ==
  [][/\ ((\E h \in AfterRoundTrip(headers, transport) :
            Do(Outcome("ctx", NoResponse), h)) \/ BackoffCancelled) =>
          /\ call'.pc = "done"
          /\ call'.err.kind = "ctx"
          /\ "unable to send request: " \in {call'.err.wrap[i] : i \in DOMAIN call'.err.wrap}
          /\ call'.count = 0
     /\ (call.pc = "done" /\ call.err.kind = "ctx") => call'.attempts = 0]_vars

C11_Witness ==
  /\ Returned /\ call.op = "Get" /\ call.err.kind = "ctx"
  /\ call.attempts = 2 /\ call.count = 0

(* C12: a Get that returns nil was answered with a status below 400 and a  *)
(* body whose value member is an array; it returns the number in the       *)
(* odata.count member of that body, whatever the length of the array, and  *)
(* the caller's target holds the elements of the array.                    *)
C12_CountFromEnvelope ==
  (Returned /\ call.op = "Get" /\ call.err = NoErr) =>
     /\ call.attempts > 0 /\ call.res.status < 400
     /\ call.res.body.kind = "object" /\ call.res.body.value.t = "arr"
     /\ call.res.body.count.t = "num" => call.count = call.res.body.count.n
     /\ call.decoded = call.res.body.value.n

C12_Witness ==
  /\ Returned /\ call.op = "Get" /\ call.err = NoErr
  /\ call.res.body.count = JNum(MaxCount) /\ call.res.body.value = JArr(1)
  /\ call.count = MaxCount /\ call.decoded = 1

(* the returned Get failed at validation or before dispatch, in the        *)
(* transport, with a remote error, in the decode of the envelope, or in    *)
(* the decode of the value member into the caller's target (there is no    *)
(* array to decode, or the target cannot take it)                          *)
ListFailure ==
  \/ call.method = ""
  \/ call.attempts = 0
  \/ call.res = NoResponse
  \/ call.res.status >= 400
  \/ ~SyntaxOK(call.res.body)
  \/ call.res.body.kind \in {"array", "unreadable"}
  \/ call.res.body.count.t = "str"
  \/ call.res.body.value.t # "arr"
  \/ call.target = "nil"

(* C13: a Get returns a count other than zero only with a nil error, and a *)
(* Get that failed at validation, in the transport, with a remote error,   *)
(* in the decode of the envelope or in the decode of the value member      *)
(* returns count 0 with an error value that is not nil.                    *)
C13_FailedListZeroCount ==
  (Returned /\ call.op = "Get") =>
     /\ call.count # 0 => call.err = NoErr
     /\ ListFailure => (call.count = 0 /\ call.err \notin {NoErr, ErrPanic})

(* C14: a Get answered with a status below 400 and an empty body returns   *)
(* count 0 and a decode error; it does not return nil.                     *)
C14_EmptyBodyIsDecodeError ==
  (Returned /\ call.op = "Get" /\ call.attempts > 0
     /\ call.res.status > 0 /\ call.res.status < 400
     /\ call.res.body = BEmpty) =>
        /\ call.count = 0
        /\ call.err # NoErr
        /\ call.err.kind = "decode"

C14_Witness ==
  /\ Returned /\ call.op = "Get" /\ call.target = "slice"
  /\ call.res = [status |-> 200, body |-> BEmpty]
  /\ call.count = 0
  /\ call.err = Wrap("unable to make the request to Millennium: ", ErrSyntax)

(* C15: Delete sends a request with the verb DELETE and returns nil for    *)
(* every response with a status below 400 whose body was read, whatever    *)
(* the body is.                                                            *)
C15_DeleteIgnoresBody ==
  (Returned /\ call.op = "Delete" /\ call.attempts > 0
     /\ call.res.status > 0 /\ call.res.status < 400
     /\ call.res.body.kind # "unreadable") =>
        /\ call.verb = DELETE
        /\ call.err = NoErr

(* C20: no step of Request, whatever the verb and the auth-mode, changes   *)
(* the header map or the credentials of the client: they are after the     *)
(* call what they were before it.                                          *)
C20_RequestLeavesClientState ==
  [][(call' # call /\ call'.op \in {"Get", "Post", "Delete", "Request"}) =>
        /\ headers' = headers
        /\ credentials' = credentials]_vars

(* the query string of the last request holds the pair key=value           *)
QueryHas(key, value) ==
  \E i \in 1..Len(ParseQuery(RawQuery(request.url))) :
    ParseQuery(RawQuery(request.url))[i] = [key |-> <<key>>, value |-> <<value>>]

(* C16: whatever the method name and the parameters of the caller, nil and *)
(* empty included, the request that is built has the address               *)
(* <base>/api/<method>?<encoded params> and its query string holds         *)
(* $format=json and $dateformat=iso.                                       *)
C16_FixedParamsInQuery ==
  (request.err = NoErr /\ request.verb # "") =>
     /\ request.url = <<ServerAddr, "/api/">> \o request.method \o <<"?">>
                        \o Encode(WithFixed(request.given))
     /\ QueryHas("$format", "json")
     /\ QueryHas("$dateformat", "iso")

(* the header maps Request hands to the transport for a call that runs     *)
(* after other calls have returned: what the round trips of those calls    *)
(* have left of the map h, and on it what Request attaches                 *)
SerialHeaders(h) ==
  {AttachHeaders(g, credentials) : g \in {h} \cup AfterRoundTrip(h, transport)}

(* C17: with several callers inside Get, Post and Delete at once and no    *)
(* Login among them, the transport is handed each request with a header    *)
(* map the request has when the calls run one after another.               *)
C17_ConcurrentCallsKeepHeaders ==
  \A c \in Callers :
    callers[c].pc = "sent" => callers[c].sent \in SerialHeaders(callers[c].expect)

(* C18: a Login or a call on one client leaves the other client as it was: *)
(* its credentials, its header map, its session token, its transport and   *)
(* the headers its requests carry.  A client changes only in a step in     *)
(* which an operation is called on it.                                     *)
C18_ClientsOwnTheirState ==
  [][\A i \in ClientIds :
       (clients[i].made /\ clients'[i].ops = clients[i].ops) =>
          clients'[i] = clients[i]]_vars

C18_Witness ==
  /\ clients[1].made /\ clients[2].made
  /\ clients[1].credentials.AuthType = Session /\ clients[1].credentials.Session = "tokA"
  /\ clients[2].credentials.AuthType = Session /\ clients[2].credentials.Session = "tokB"
  /\ clients[1].sent[HWTSSession] = WTSSessionValue("tokA")
  /\ clients[1].sent[HWTSAuthorization] = NoHeader
  /\ clients[2].sent[HWTSSession] = WTSSessionValue("tokB")
  /\ clients[2].sent[HWTSAuthorization] = NoHeader

(* C19: NewClient returns an error of the configuration kind and no client *)
(* when the server address is empty or the timeout is zero or negative,    *)
(* and returns a client only for a non-empty address and a timeout above   *)
(* zero.                                                                   *)
C19_NewClientRejectsBadConfig ==
  [][\A i \in ClientIds, server \in Servers, timeout \in Timeouts :
       CreateClient(i, server, timeout) =>
         /\ clients'[i].made <=> (server # "" /\ timeout > 0)
         /\ ~clients'[i].made => clients'[i].err.kind = "config"]_vars

(* C21: Login with the mode NTLM or Basic returns nil at once and sends no *)
(* request; it stores the username, the password and the mode, leaves the  *)
(* session token and the header map as they were, and for NTLM installs    *)
(* the negotiator as the transport.                                        *)
C21_LoginWithoutNetwork ==
  [][(Ready /\ call'.op = "Login" /\ call'.authType \in {NTLM, Basic}) =>
        /\ call'.pc = "done" /\ call'.err = NoErr /\ call'.attempts = 0
        /\ credentials' = [Username |-> call'.username, Password |-> call'.password,
                           AuthType |-> call'.authType, Session |-> credentials.Session]
        /\ headers' = headers
        /\ transport' = IF call'.authType = NTLM THEN "ntlm" ELSE transport]_vars

C21_Witness ==
  /\ Returned /\ call.op = "Login" /\ call.authType = NTLM
  /\ call.err = NoErr /\ call.attempts = 0
  /\ credentials.AuthType = NTLM /\ credentials.Username = "admin"
  /\ transport = "ntlm"

(* C22: a call answered with a status of 400 or more and a body that is    *)
(* not an error envelope returns a decode error, which is no ResponseError *)
(* and holds none; a call answered with a status below 400 and a body that *)
(* is not JSON returns a decode error as well.                             *)
C22_DecodeErrorIsDistinct ==
  /\ (Returned /\ call.attempts = 1 /\ call.res.status >= 400
        /\ call.res.body.kind # "unreadable" /\ ~ValidEnvelope(call.res.body)) =>
        (call.err.kind = "decode" /\ ~AsResponseError(call.err))
  /\ (Returned /\ call.attempts = 1 /\ call.res.status > 0 /\ call.res.status < 400
        /\ ~SyntaxOK(call.res.body)) =>
        (call.err.kind = "decode" /\ ~AsResponseError(call.err))

(* what is left of a call in progress: twice the attempts it may still     *)
(* make, and one more while it waits to make the next                      *)
Remaining(c) ==
  2 * (RetryMax + 1 - c.attempts) + (IF c.pc = "backoff" THEN 1 ELSE 0)

(* C23: a call makes at most RetryMax + 1 attempts, and every step of a    *)
(* call in progress either makes it return or brings it nearer to its last *)
(* attempt, whatever the transport answers: the call returns after a       *)
(* bounded number of steps.                                                *)
C23_CallsTerminate ==
  [][(call.pc \in {"dispatch", "backoff"}) =>
        /\ call'.attempts <= RetryMax + 1
        /\ \/ call'.pc = "done"
           \/ /\ call'.pc \in {"dispatch", "backoff"}
              /\ Remaining(call') \in 0..(Remaining(call) - 1)]_vars

C23_Witness ==
  /\ Returned /\ call.op = "Delete" /\ call.attempts = RetryMax + 1
  /\ call.err # NoErr /\ call.err.kind = "neterr"

(* C24: when the map of the caller holds a value of its own under $format  *)
(* or $dateformat, the query string of the request holds that value and    *)
(* the fixed one, json or iso, under the same key.                         *)
C24_FixedParamsAppended ==
  (request.err = NoErr /\ request.verb # "") =>
     \A key \in {"$format", "$dateformat"} :
       \A i \in 1..Len(request.given.vals[key]) :
         /\ QueryHas(key, request.given.vals[key][i])
         /\ QueryHas(key, IF key = "$format" THEN "json" ELSE "iso")

(* how often the pair key=value is among the pairs the query string of the *)
(* request decodes to, and how often the caller's map has it               *)
ParamValues == {"xml", "dmy", "a&b", "json", "iso"}
DecodedCount(key, value) ==
  Cardinality({i \in 1..Len(ParseQuery(RawQuery(request.url))) :
                 ParseQuery(RawQuery(request.url))[i] = [key |-> <<key>>, value |-> <<value>>]})
GivenCount(key, value) ==
  Cardinality({i \in 1..Len(request.given.vals[key]) : request.given.vals[key][i] = value})
FixedCount(key, value) ==
  IF <<key, value>> \in {<<"$format", "json">>, <<"$dateformat", "iso">>} THEN 1 ELSE 0

(* C25: decoding the query string of the request that is built and taking  *)
(* away one $format=json and one $dateformat=iso gives exactly the pairs   *)
(* of the caller's map, each as often as the caller has it, and no other   *)
(* pair.                                                                   *)
C25_ParamsRoundTrip ==
  (request.err = NoErr /\ request.verb # "") =>
     /\ \A key \in ParamKeys : \A value \in ParamValues :
           DecodedCount(key, value) = GivenCount(key, value) + FixedCount(key, value)
     /\ \A i \in 1..Len(ParseQuery(RawQuery(request.url))) :
           \E key \in ParamKeys : \E value \in ParamValues :
             ParseQuery(RawQuery(request.url))[i] = [key |-> <<key>>, value |-> <<value>>]

(* C26: a Get answered with a status below 400 and a JSON object that has  *)
(* no odata.count member returns an error value that is not nil; it does   *)
(* not return nil with count 0.                                            *)
C26_MissingCountIsError ==
  (Returned /\ call.op = "Get" /\ call.attempts > 0
     /\ call.res.status > 0 /\ call.res.status < 400
     /\ call.res.body.kind = "object" /\ call.res.body.count.t = "absent") =>
        call.err # NoErr

(* C27: a Get answered with a status below 400 and a JSON object never     *)
(* dereferences a value member that is absent or null: it returns a count  *)
(* and an error value, and does not panic.                                 *)
C27_GetNeverPanics ==
  (Returned /\ call.op = "Get" /\ call.attempts > 0
     /\ call.res.status > 0 /\ call.res.status < 400
     /\ call.res.body.kind = "object") =>
        call.err # ErrPanic

(* C28: a Get or a Delete leaves the caller's map of parameters as it was, *)
(* and a call repeated with the map the call before it was given builds    *)
(* the same address again.                                                 *)
C28_CallerParamsUnchanged ==
  [][\A m \in PathMethods :
       (GetWith(m) \/ DeleteWith(m)) =>
          /\ params' = params
          /\ (request.err = NoErr /\ request.method = m /\ request.verb = request'.verb
                /\ params = AfterRequest(m, request.given)) =>
                   request'.url = request.url]_vars

(* C29: the session token of a new client is empty; between operations a   *)
(* WTS-Session header that is in the header map holds the stored session   *)
(* token; and the stored session token changes only in the step in which a *)
(* Session Login returns nil.                                              *)
C29_SessionHeaderConsistent ==
  /\ credentials.Session = ""
  /\ [](Ready => (headers[HWTSSession] # NoHeader =>
                    headers[HWTSSession] = WTSSessionValue(credentials.Session)))
  /\ [][credentials'.Session # credentials.Session =>
          (call'.pc = "done" /\ call'.op = "Login" /\ call'.authType = Session
             /\ call'.err = NoErr /\ call'.attempts > 0)]_vars

C29_Witness ==
  /\ Returned /\ call.op = "Get" /\ call.err # NoErr
  /\ credentials.AuthType = NTLM
  /\ credentials.Session = "tokA"
  /\ headers[HWTSSession] = WTSSessionValue("tokA")

(* C30: in every state between operations a Session Login can be started, *)
(* and whatever went before it, a Session Login that returns on a response *)
(* with a status below 400 and a session token returns nil and leaves the  *)
(* token stored and under WTS-Session, and no WTS-Authorization in the     *)
(* header map.                                                             *)
C30_LoginRecovers ==
  /\ [](Ready => ENABLED Login("test", "test", Session))
  /\ [][(call' # call /\ call'.pc = "done" /\ call'.op = "Login"
          /\ call'.authType = Session /\ call'.attempts > 0
          /\ call'.res.status > 0 /\ call'.res.status < 400
          /\ call'.res.body.kind = "object" /\ call'.res.body.session.t = "str") =>
            /\ call'.err = NoErr
            /\ credentials'.Session = call'.res.body.session.s
            /\ credentials'.AuthType = Session
            /\ headers'[HWTSSession] = WTSSessionValue(call'.res.body.session.s)
            /\ headers'[HWTSAuthorization] = NoHeader]_vars

C30_Witness ==
  /\ Returned /\ IsSessionLogin /\ call.err = NoErr /\ call.attempts = 2
  /\ transport = "ntlm"
  /\ credentials.Session = "tokA" /\ credentials.AuthType = Session
  /\ headers[HWTSSession] = WTSSessionValue("tokA")
  /\ headers[HWTSAuthorization] = NoHeader

(* C31: a request of Get, Post, Delete or Request built while the          *)
(* auth-mode is Session, or before any Login, carries no basic-auth        *)
(* Authorization header, whatever Login calls and calls went before.       *)
C31_BasicAuthOnlyInBasicModes ==
  (Dispatched /\ call.op # "Login" /\ credentials.AuthType \notin {NTLM, Basic}) =>
     ~IsBasic(call.built[HAuthorization])

====
